---- MODULE Spec2Model ----
(***************************************************************************)
(* Model of the snake engine of vrnvu/rust-snake (src/src/game.rs):        *)
(* GameState, Snake, Position, Direction, Food and Action; and of the      *)
(* self-contained game of src/src/main.rs (Game and its run loop), whose   *)
(* fields of the same names are held in the same variables; and of the     *)
(* name input of the menu (src/src/menu.rs, InputInfoRow).                 *)
(*                                                                         *)
(* The specifications share the variables:                               *)
(*   Spec      a new game followed by any sequence of ticks, a tick being  *)
(*             GameState::next applied to the result of get_action;        *)
(*   SpecRun   the same ticks under a run loop that stops at the first     *)
(*             tick after which is_game_over is true;                      *)
(*   SpecUnit  the public Snake API driven directly, the way the unit      *)
(*             tests of game.rs drive it;                                  *)
(*   SpecBack  ticks, each possibly followed by one step back: next        *)
(*             applied to Action::reverse of the tick's action;            *)
(*   SpecMain  the run loop of main.rs on its 30 x 15 grid;                *)
(*   SpecIdle  the run loop when no direction key is ever pressed;         *)
(*   SpecMenu  key events given to InputInfoRow::handle_input.             *)
(***************************************************************************)
EXTENDS Integers, Sequences, FiniteSets

\* ---------------------------------------------------------------- bounds
\* Grid sides are 5 (the smallest legal side) or 5 + ExtraSize.
ExtraSize == 1
\* Longest run (number of ticks, i.e. length of the action log) explored.
MaxTicks == 3
\* Longest tail built through the Snake API in SpecUnit.
MaxTail == 3
\* Number of iterations of the run loop of main.rs explored in SpecMain.
MaxFrames == 2
\* Longest value of the name input, in bytes, explored in SpecMenu.
MaxBytes == 5

\* ------------------------------------------------------------- constants
\* u16 arithmetic: values are 0 .. 2^16 - 1.
U16 == 65536

GridSizes == {5, 5 + ExtraSize}

None == "None"
Directions == {"Up", "Down", "Left", "Right"}
\* KeyCode values that matter: the four arrows and any other key.
KeyCodes == {"Up", "Down", "Left", "Right", "Char"}
\* Option<KeyCode>
UserInputs == KeyCodes \cup {None}

VARIABLES
    game_width,       \* GameState.game_width
    game_height,      \* GameState.game_height
    snake,            \* GameState.snake: [head, tail, direction, grow]
    food,             \* GameState.food: [position]
    score,            \* GameState.score
    actions,          \* GameState.actions, the log
    user_input,       \* the Option<KeyCode> given to the last get_action
    panicked,         \* the program has panicked: a u16 overflow with
                      \* overflow checks on, or a failed String operation
    wrapped,          \* a u16 overflow has wrapped (overflow checks off)
    food_draws,       \* number of calls of Food::new so far
    prior,            \* snake and score before the last get_action / next
    running,          \* main.rs: the run loop has not been left
    frames,           \* main.rs: iterations of the run loop begun
    name_input        \* menu.rs: InputInfoRow [value, cursor_position]

vars == <<game_width, game_height, snake, food, score, actions,
          user_input, panicked, wrapped, food_draws, prior,
          running, frames, name_input>>

\* The run loop's own variables, untouched by the engine of game.rs.
loopVars == <<running, frames>>

\* ---------------------------------------------------------------- String
\* A String is its UTF-8 bytes.  A byte is [char, lead]: the character it
\* belongs to and whether it is that character's first byte.
Chars == {"a", "e_acute", "euro"}

\* char::len_utf8: 'a' is U+0061, e acute is U+00E9, the euro sign U+20AC.
len_utf8(c) ==
    CASE c = "a" -> 1
      [] c = "e_acute" -> 2
      [] c = "euro" -> 3

encode_utf8(c) == [i \in 1 .. len_utf8(c) |-> [char |-> c, lead |-> i = 1]]

\* str::is_char_boundary(index), index counted in bytes from 0.
is_char_boundary(s, index) ==
    \/ index = 0
    \/ index = Len(s)
    \/ index < Len(s) /\ s[index + 1].lead

\* String::insert(idx, ch): panics unless idx is a char boundary.
String_insert(s, idx, ch) ==
    IF ~is_char_boundary(s, idx)
    THEN [value |-> s, panic |-> TRUE]
    ELSE [value |-> SubSeq(s, 1, idx) \o encode_utf8(ch)
                        \o SubSeq(s, idx + 1, Len(s)),
          panic |-> FALSE]

\* String::remove(idx): panics unless idx is a char boundary before the end;
\* removes all the bytes of the character that starts at idx.
String_remove(s, idx) ==
    IF ~is_char_boundary(s, idx) \/ idx >= Len(s)
    THEN [value |-> s, panic |-> TRUE]
    ELSE [value |-> SubSeq(s, 1, idx)
                        \o SubSeq(s, idx + len_utf8(s[idx + 1].char) + 1, Len(s)),
          panic |-> FALSE]

\* ---------------------------------------------------------- InputInfoRow
InputInfoRow_new == [value |-> <<>>, cursor_position |-> 0]

\* ------------------------------------------------------------- Direction
\* Mutant: Left is mapped to itself.
Direction_reverse_LeftLeft(d) ==
    CASE d = "Up" -> "Down"
      [] d = "Down" -> "Up"
      [] d = "Left" -> "Left"
      [] d = "Right" -> "Left"

Direction_reverse(d) ==
    CASE d = "Up" -> "Down"
      [] d = "Down" -> "Up"
      [] d = "Left" -> "Right"
      [] d = "Right" -> "Left"

\* -------------------------------------------------------------- Position
Position_new(x, y) == [x |-> x, y |-> y]

Position_is_on_border(p, width, height) ==
    p.x = 0 \/ p.y = height - 1 \/ p.x = width - 1 \/ p.y = 0

\* The u16 operation of Position::move_direction leaves 0 .. 2^16 - 1.
Position_move_overflows(p, direction) ==
    CASE direction = "Up" -> p.y = 0
      [] direction = "Down" -> p.y = U16 - 1
      [] direction = "Left" -> p.x = 0
      [] direction = "Right" -> p.x = U16 - 1

\* Mutant: the y axis taken to grow upwards.
Position_move_direction_Flipped(p, direction) ==
    CASE direction = "Up" -> [p EXCEPT !.y = (p.y + 1) % U16]
      [] direction = "Down" -> [p EXCEPT !.y = (p.y - 1) % U16]
      [] direction = "Left" -> [p EXCEPT !.x = (p.x - 1) % U16]
      [] direction = "Right" -> [p EXCEPT !.x = (p.x + 1) % U16]

\* The value of Position::move_direction with wrapping arithmetic.
Position_move_direction(p, direction) ==
    CASE direction = "Up" -> [p EXCEPT !.y = (p.y - 1) % U16]
      [] direction = "Down" -> [p EXCEPT !.y = (p.y + 1) % U16]
      [] direction = "Left" -> [p EXCEPT !.x = (p.x - 1) % U16]
      [] direction = "Right" -> [p EXCEPT !.x = (p.x + 1) % U16]

\* ----------------------------------------------------------------- Snake
\* Mutant: the coordinates are taken in the other order.
Snake_new_Swapped(initial_x, initial_y) ==
    [head |-> Position_new(initial_y, initial_x),
     tail |-> <<>>,
     direction |-> "Right",
     grow |-> FALSE]

Snake_new(initial_x, initial_y) ==
    [head |-> Position_new(initial_x, initial_y),
     tail |-> <<>>,
     direction |-> "Right",
     grow |-> FALSE]

push_front(q, e) == <<e>> \o q
\* Mutant: the element is taken off the front.
pop_back_Front(q) == IF q = <<>> THEN q ELSE Tail(q)

pop_back(q) == IF q = <<>> THEN q ELSE SubSeq(q, 1, Len(q) - 1)

\* Mutant: the old head is pushed and nothing is popped.
Snake_move_direction_NoPop(s, checks) ==
    LET overflows == Position_move_overflows(s.head, s.direction)
    IN IF checks /\ overflows
       THEN [snake |-> s, panic |-> TRUE, wrapped |-> FALSE]
       ELSE [snake |-> [s EXCEPT !.head = Position_move_direction(s.head, s.direction),
                                 !.tail = push_front(s.tail, s.head)],
             panic |-> FALSE,
             wrapped |-> overflows]

\* A Snake method's outcome: the snake afterwards, whether the call panicked
\* and whether a coordinate wrapped.  u16 overflow panics where overflow
\* checks are compiled in (checks) and wraps where they are not; a panic
\* happens before any assignment of the method.
Snake_move_direction(s, checks) ==
    LET overflows == Position_move_overflows(s.head, s.direction)
    IN IF checks /\ overflows
       THEN [snake |-> s, panic |-> TRUE, wrapped |-> FALSE]
       ELSE LET old_head == s.head
                moved == [s EXCEPT !.head = Position_move_direction(s.head, s.direction)]
            IN [snake |-> IF moved.tail # <<>>
                           THEN [moved EXCEPT !.tail = pop_back(push_front(moved.tail, old_head))]
                           ELSE moved,
                panic |-> FALSE,
                wrapped |-> overflows]

\* Mutant: the head moves and the old head is not pushed.
Snake_move_and_grow_NoPush(s, checks) ==
    LET overflows == Position_move_overflows(s.head, s.direction)
    IN IF checks /\ overflows
       THEN [snake |-> s, panic |-> TRUE, wrapped |-> FALSE]
       ELSE [snake |-> [s EXCEPT !.head = Position_move_direction(s.head, s.direction)],
             panic |-> FALSE,
             wrapped |-> overflows]

Snake_move_and_grow(s, checks) ==
    LET overflows == Position_move_overflows(s.head, s.direction)
    IN IF checks /\ overflows
       THEN [snake |-> s, panic |-> TRUE, wrapped |-> FALSE]
       ELSE LET old_head == s.head
            IN [snake |-> [s EXCEPT !.head = Position_move_direction(s.head, s.direction),
                                    !.tail = push_front(s.tail, old_head)],
                panic |-> FALSE,
                wrapped |-> overflows]

\* Mutant: only the x coordinates are compared.
Snake_self_collision_XOnly(s) ==
    \E i \in 1 .. Len(s.tail) : s.tail[i].x = s.head.x

Snake_self_collision(s) ==
    \E i \in 1 .. Len(s.tail) : s.tail[i].x = s.head.x /\ s.tail[i].y = s.head.y

\* ------------------------------------------------------------------ Food
\* Mutant: inclusive ranges, 1..=max - 1.
Food_new_Inclusive(max_width, max_height) ==
    {[position |-> Position_new(x, y)] :
        x \in 1 .. (max_width - 1), y \in 1 .. (max_height - 1)}

\* The positions Food::new can draw: gen_range(1..max_width - 1) is half open.
Food_new(max_width, max_height) ==
    {[position |-> Position_new(x, y)] :
        x \in 1 .. (max_width - 2), y \in 1 .. (max_height - 2)}

\* ---------------------------------------------------------------- Action
\* Mutant: the head is recorded as (0, 0), like food_position.
Action_new_ZeroHead(snake_head, change_direction, must_grow) ==
    [snake_head |-> Position_new(0, 0),
     change_direction |-> change_direction,
     must_grow |-> must_grow,
     food_position |-> Position_new(0, 0),
     is_reverse |-> FALSE]

Action_new(snake_head, change_direction, must_grow) ==
    [snake_head |-> snake_head,
     change_direction |-> change_direction,
     must_grow |-> must_grow,
     food_position |-> Position_new(0, 0),
     is_reverse |-> FALSE]

\* Mutant: the direction change is copied, not reversed.
Action_reverse_KeepDirection(action) ==
    [snake_head |-> action.snake_head,
     change_direction |-> action.change_direction,
     must_grow |-> ~action.must_grow,
     food_position |-> action.food_position,
     is_reverse |-> TRUE]

\* Mutant: the growth flag is copied, not negated.
Action_reverse_KeepGrow(action) ==
    [snake_head |-> action.snake_head,
     change_direction |-> IF action.change_direction = None
                          THEN None
                          ELSE Direction_reverse(action.change_direction),
     must_grow |-> action.must_grow,
     food_position |-> action.food_position,
     is_reverse |-> TRUE]

Action_reverse(action) ==
    [snake_head |-> action.snake_head,
     change_direction |-> IF action.change_direction = None
                          THEN None
                          ELSE Direction_reverse(action.change_direction),
     must_grow |-> ~action.must_grow,
     food_position |-> action.food_position,
     is_reverse |-> TRUE]

\* ------------------------------------------------------------- GameState
\* The match of get_action from key codes to directions.
KeyDirection(input) ==
    CASE input = "Up" -> "Up"
      [] input = "Down" -> "Down"
      [] input = "Left" -> "Left"
      [] input = "Right" -> "Right"
      [] OTHER -> None

\* Mutant: the reverse of the heading is not rejected.
get_action_NoReverseCheck(input) ==
    LET direction == KeyDirection(input)
        must_grow == snake.head = food.position
    IN IF direction = None
       THEN Action_new(snake.head, None, must_grow)
       ELSE IF direction # snake.direction
            THEN Action_new(snake.head, direction, must_grow)
            ELSE Action_new(snake.head, None, must_grow)

\* Mutant: the current heading is not filtered out.
get_action_NoSameCheck(input) ==
    LET direction == KeyDirection(input)
        must_grow == snake.head = food.position
    IN IF direction = None
       THEN Action_new(snake.head, None, must_grow)
       ELSE IF direction # Direction_reverse(snake.direction)
            THEN Action_new(snake.head, direction, must_grow)
            ELSE Action_new(snake.head, None, must_grow)

get_action(input) ==
    LET direction == KeyDirection(input)
        must_grow == snake.head = food.position
    IN IF direction = None
       THEN Action_new(snake.head, None, must_grow)
       ELSE IF direction # snake.direction
               /\ direction # Direction_reverse(snake.direction)
            THEN Action_new(snake.head, direction, must_grow)
            ELSE Action_new(snake.head, None, must_grow)

is_game_over ==
    Position_is_on_border(snake.head, game_width, game_height)
        \/ Snake_self_collision(snake)

\* Mutant: the entry is put at the front of the log.
Vec_push_Front(v, e) == <<e>> \o v

\* self.actions.push(action)
Vec_push(v, e) == Append(v, e)

\* Mutant: the food is drawn again on every tick.
next_AlwaysRespawn(action, new_food, checks) ==
    LET turned == IF action.change_direction # None
                  THEN [snake EXCEPT !.direction = action.change_direction]
                  ELSE snake
        log == Vec_push(actions, action)
    IN IF action.must_grow
       THEN LET grown == Snake_move_and_grow(turned, checks)
            IN IF grown.panic
               THEN [snake |-> grown.snake, food |-> food, score |-> score,
                     actions |-> log, panic |-> TRUE, wrapped |-> FALSE,
                     draws |-> 0]
               ELSE LET moved == Snake_move_direction(grown.snake, checks)
                    IN [snake |-> moved.snake, food |-> new_food,
                        score |-> score + 1, actions |-> log,
                        panic |-> moved.panic,
                        wrapped |-> grown.wrapped \/ moved.wrapped,
                        draws |-> 1]
       ELSE LET moved == Snake_move_direction(turned, checks)
            IN [snake |-> moved.snake, food |-> new_food, score |-> score,
                actions |-> log, panic |-> moved.panic, wrapped |-> moved.wrapped,
                draws |-> 1]

\* GameState::next as a function of the action, of the food Food::new draws
\* if it is called and of the build's overflow checks: the fields afterwards,
\* whether the call panicked, whether a coordinate wrapped and how many
\* times Food::new was called.  A panic leaves the fields as they are at the
\* panicking statement.
next(action, new_food, checks) ==
    LET turned == IF action.change_direction # None
                  THEN [snake EXCEPT !.direction = action.change_direction]
                  ELSE snake
        log == Vec_push(actions, action)
    IN IF action.must_grow
       THEN LET grown == Snake_move_and_grow(turned, checks)
            IN IF grown.panic
               THEN [snake |-> grown.snake, food |-> food, score |-> score,
                     actions |-> log, panic |-> TRUE, wrapped |-> FALSE,
                     draws |-> 0]
               ELSE LET moved == Snake_move_direction(grown.snake, checks)
                    IN [snake |-> moved.snake, food |-> new_food,
                        score |-> score + 1, actions |-> log,
                        panic |-> moved.panic,
                        wrapped |-> grown.wrapped \/ moved.wrapped,
                        draws |-> 1]
       ELSE LET moved == Snake_move_direction(turned, checks)
            IN [snake |-> moved.snake, food |-> food, score |-> score,
                actions |-> log, panic |-> moved.panic, wrapped |-> moved.wrapped,
                draws |-> 0]

\* GameState::new for a width and a height, with the food Food::new drew.
Init ==
    /\ game_width \in GridSizes
    /\ game_height \in GridSizes
    /\ snake = Snake_new(game_width \div 2, game_height \div 2)
    /\ food \in Food_new(game_width, game_height)
    /\ score = 0
    /\ actions = <<>>
    /\ user_input = None
    /\ panicked = FALSE
    /\ wrapped = FALSE
    /\ food_draws = 1
    /\ prior = [snake |-> snake, score |-> score]
    /\ running = TRUE
    /\ frames = 0
    /\ name_input = InputInfoRow_new

\* The foods a tick can draw: Food::new is called only when must_grow is set.
DrawnFood(action) ==
    IF action.must_grow THEN Food_new(game_width, game_height) ELSE {food}

\* The build's overflow checks are on or off for the whole run: once a
\* coordinate has wrapped they are known to be off.
OverflowChecks == IF wrapped THEN {FALSE} ELSE BOOLEAN

\* One tick: next(get_action(input)), in a run of at most max_ticks ticks.
TickWithin(input, max_ticks) ==
    /\ ~panicked
    /\ Len(actions) < max_ticks
    /\ \E new_food \in DrawnFood(get_action(input)), checks \in OverflowChecks :
          LET r == next(get_action(input), new_food, checks)
          IN /\ snake' = r.snake
             /\ food' = r.food
             /\ score' = r.score
             /\ actions' = r.actions
             /\ panicked' = r.panic
             /\ wrapped' = (wrapped \/ r.wrapped)
             /\ food_draws' = food_draws + r.draws
    /\ user_input' = input
    /\ prior' = [snake |-> snake, score |-> score]
    /\ UNCHANGED <<game_width, game_height>>
    /\ UNCHANGED loopVars
    /\ UNCHANGED name_input

Tick(input) == TickWithin(input, MaxTicks)

Next == \E input \in UserInputs : Tick(input)

Spec == Init /\ [][Next]_vars

\* The run loop: a tick is made only while the game is not over.
RunTick(input) ==
    /\ ~is_game_over
    /\ Tick(input)

NextRun == \E input \in UserInputs : RunTick(input)

SpecRun == Init /\ [][NextRun]_vars

\* The run loop when no direction key is ever pressed: every event is no
\* key or a key that is not an arrow.  The run is followed for one tick
\* more than the widest grid has columns, and the loop does not stop
\* ticking while the game is not over.
IdleInputs == UserInputs \ Directions

MaxIdleTicks == 5 + ExtraSize + 1

IdleTick(input) ==
    /\ ~is_game_over
    /\ TickWithin(input, MaxIdleTicks)

NextIdle == \E input \in IdleInputs : IdleTick(input)

SpecIdle == Init /\ [][NextIdle]_vars /\ WF_vars(NextIdle)

\* Stepping back: the action of the last tick is reversed with
\* Action::reverse and the result applied with GameState::next, which logs
\* the reversed action like any other.
Back ==
    /\ ~panicked
    /\ Len(actions) > 0
    /\ Len(actions) < MaxTicks
    /\ ~actions[Len(actions)].is_reverse
    /\ LET action == Action_reverse(actions[Len(actions)])
       IN \E new_food \in DrawnFood(action), checks \in OverflowChecks :
             LET r == next(action, new_food, checks)
             IN /\ snake' = r.snake
                /\ food' = r.food
                /\ score' = r.score
                /\ actions' = r.actions
                /\ panicked' = r.panic
                /\ wrapped' = (wrapped \/ r.wrapped)
                /\ food_draws' = food_draws + r.draws
    /\ UNCHANGED <<game_width, game_height, user_input, prior>>
    /\ UNCHANGED loopVars
    /\ UNCHANGED name_input

\* A run is explored up to its first step back.
SteppedBack == Len(actions) > 0 /\ actions[Len(actions)].is_reverse

NextBack ==
    \/ \E input \in UserInputs : ~SteppedBack /\ Tick(input)
    \/ Back

SpecBack == Init /\ [][NextBack]_vars

\* ------------------------------------------------- the Snake API, directly
\* The unit tests build a Snake with Snake::new, assign its public direction
\* field and call move_direction; move_and_grow is public as well.  The game
\* fields around the snake are those of a game on the widest grid.
InGrid(p) == p.x < game_width /\ p.y < game_height

InitUnit ==
    /\ game_width = 5 + ExtraSize
    /\ game_height = 5
    /\ snake = Snake_new(game_width \div 2, game_height \div 2)
    /\ food = [position |-> Position_new(1, 1)]
    /\ score = 0
    /\ actions = <<>>
    /\ user_input = None
    /\ panicked = FALSE
    /\ wrapped = FALSE
    /\ food_draws = 1
    /\ prior = [snake |-> snake, score |-> score]
    /\ running = TRUE
    /\ frames = 0
    /\ name_input = InputInfoRow_new

UnitSetDirection(d) ==
    /\ ~panicked
    /\ d # snake.direction
    /\ snake' = [snake EXCEPT !.direction = d]
    /\ UNCHANGED <<game_width, game_height, food, score, actions,
                   user_input, panicked, wrapped, food_draws, prior>>
    /\ UNCHANGED loopVars
    /\ UNCHANGED name_input

\* Moves are explored while the head is inside the grid.
UnitMoveDirection ==
    /\ ~panicked
    /\ InGrid(snake.head)
    /\ \E checks \in OverflowChecks :
          LET r == Snake_move_direction(snake, checks)
          IN /\ snake' = r.snake
             /\ panicked' = r.panic
             /\ wrapped' = (wrapped \/ r.wrapped)
    /\ UNCHANGED <<game_width, game_height, food, score, actions, user_input,
                   food_draws, prior>>
    /\ UNCHANGED loopVars
    /\ UNCHANGED name_input

UnitMoveAndGrow ==
    /\ ~panicked
    /\ InGrid(snake.head)
    /\ Len(snake.tail) < MaxTail
    /\ \E checks \in OverflowChecks :
          LET r == Snake_move_and_grow(snake, checks)
          IN /\ snake' = r.snake
             /\ panicked' = r.panic
             /\ wrapped' = (wrapped \/ r.wrapped)
    /\ UNCHANGED <<game_width, game_height, food, score, actions, user_input,
                   food_draws, prior>>
    /\ UNCHANGED loopVars
    /\ UNCHANGED name_input

NextUnit ==
    \/ \E d \in Directions : UnitSetDirection(d)
    \/ UnitMoveDirection
    \/ UnitMoveAndGrow

SpecUnit == InitUnit /\ [][NextUnit]_vars

\* ------------------------------------------------------ main.rs: the game
\* main.rs is a complete game of its own: Game holds width, height, snake,
\* food and score, and main runs the loop.  It keeps no action log.
Main_width == 30
Main_height == 15

\* The key codes main matches on, any other key, and no key event at all.
MainInputs == KeyCodes \cup {"Esc", None}

Main_Position_is_on_border(p, width, height) ==
    p.x = 0 \/ p.y = height - 1 \/ p.x = width - 1 \/ p.y = 0

Main_Position_is_on(p, other) == p.x = other.x /\ p.y = other.y

Main_Position_self_collision(p, tail) ==
    \E i \in 1 .. Len(tail) : tail[i].x = p.x /\ tail[i].y = p.y

Main_Snake_new(initial_x, initial_y) ==
    [head |-> [x |-> initial_x, y |-> initial_y],
     tail |-> <<>>,
     direction |-> "Right",
     grow |-> FALSE]

Main_Food_new(max_width, max_height) ==
    {[position |-> [x |-> x, y |-> y]] :
        x \in 1 .. (max_width - 2), y \in 1 .. (max_height - 2)}

\* Snake::move_direction of main.rs: the head moves in place, the old head
\* is pushed to the front, and the back is popped unless grow is set.
Main_Snake_move_direction(s, checks) ==
    LET overflows ==
            CASE s.direction = "Up" -> s.head.y = 0
              [] s.direction = "Down" -> s.head.y = U16 - 1
              [] s.direction = "Left" -> s.head.x = 0
              [] s.direction = "Right" -> s.head.x = U16 - 1
        old_head == s.head
        head ==
            CASE s.direction = "Up" -> [s.head EXCEPT !.y = (s.head.y - 1) % U16]
              [] s.direction = "Down" -> [s.head EXCEPT !.y = (s.head.y + 1) % U16]
              [] s.direction = "Left" -> [s.head EXCEPT !.x = (s.head.x - 1) % U16]
              [] s.direction = "Right" -> [s.head EXCEPT !.x = (s.head.x + 1) % U16]
        pushed == <<old_head>> \o s.tail
    IN IF checks /\ overflows
       THEN [snake |-> s, panic |-> TRUE, wrapped |-> FALSE]
       ELSE [snake |-> [head |-> head,
                        tail |-> IF ~s.grow
                                 THEN SubSeq(pushed, 1, Len(pushed) - 1)
                                 ELSE pushed,
                        direction |-> s.direction,
                        grow |-> FALSE],
             panic |-> FALSE,
             wrapped |-> overflows]

\* Game::is_game_over of main.rs, for a game whose snake is s.
Main_is_game_over(s) ==
    Main_Position_is_on_border(s.head, game_width, game_height)
        \/ Main_Position_self_collision(s.head, s.tail)

\* Game::update of main.rs on a game whose snake is s: the fields afterwards.
Main_update(s, new_food, checks) ==
    LET eats == Main_Position_is_on(s.head, food.position)
        flagged == IF eats THEN [s EXCEPT !.grow = TRUE] ELSE s
        moved == Main_Snake_move_direction(flagged, checks)
    IN [snake |-> moved.snake,
        score |-> IF eats THEN score + 1 ELSE score,
        food |-> IF eats THEN new_food ELSE food,
        draws |-> IF eats THEN 1 ELSE 0,
        panic |-> moved.panic,
        wrapped |-> moved.wrapped]

\* Game::new(width, height) as main calls it.
InitMain ==
    /\ game_width = Main_width
    /\ game_height = Main_height
    /\ snake = Main_Snake_new(game_width \div 2, game_height \div 2)
    /\ food \in Main_Food_new(game_width, game_height)
    /\ score = 0
    /\ actions = <<>>
    /\ user_input = None
    /\ panicked = FALSE
    /\ wrapped = FALSE
    /\ food_draws = 1
    /\ prior = [snake |-> snake, score |-> score]
    /\ running = TRUE
    /\ frames = 0
    /\ name_input = InputInfoRow_new

\* The heading after main's match on the key code.
Main_key_direction(key) == IF key \in Directions THEN key ELSE snake.direction

\* One iteration of the loop of main: the key event if there is one (an
\* arrow sets the heading, Esc leaves the loop), update, render, and the
\* loop is left when is_game_over.
MainFrame(key) ==
    /\ running
    /\ ~panicked
    /\ frames < MaxFrames
    /\ frames' = frames + 1
    /\ user_input' = key
    /\ IF key = "Esc"
       THEN /\ running' = FALSE
            /\ UNCHANGED <<snake, food, score, panicked, wrapped, food_draws>>
       ELSE LET turned == [snake EXCEPT !.direction = Main_key_direction(key)]
            IN \E new_food \in (IF Main_Position_is_on(snake.head, food.position)
                                THEN Main_Food_new(game_width, game_height)
                                ELSE {food}),
                  checks \in OverflowChecks :
                  LET r == Main_update(turned, new_food, checks)
                  IN /\ snake' = r.snake
                     /\ food' = r.food
                     /\ score' = r.score
                     /\ panicked' = r.panic
                     /\ wrapped' = (wrapped \/ r.wrapped)
                     /\ food_draws' = food_draws + r.draws
                     /\ running' = (r.panic \/ ~Main_is_game_over(r.snake))
    /\ UNCHANGED <<game_width, game_height, actions, prior, name_input>>

NextMain == \E key \in MainInputs : MainFrame(key)

SpecMain == InitMain /\ [][NextMain]_vars

\* ------------------------------------------------- menu.rs: the name input
\* The key events handle_input distinguishes: a character, Backspace, Left,
\* Right, and any other key (Delete stands for them).
MenuKeys ==
    {[code |-> "Char", c |-> c] : c \in Chars}
        \cup {[code |-> k, c |-> None] : k \in {"Backspace", "Left", "Right", "Delete"}}

\* InputInfoRow::handle_input(key) on row: the row afterwards and whether
\* the call panicked.
handle_input(row, key) ==
    CASE key.code = "Char" ->
           LET r == String_insert(row.value, row.cursor_position, key.c)
           IN IF r.panic
              THEN [row |-> row, panic |-> TRUE]
              ELSE [row |-> [value |-> r.value,
                             cursor_position |-> row.cursor_position + 1],
                    panic |-> FALSE]
      [] key.code = "Backspace" /\ row.cursor_position > 0 ->
           LET target_pos == row.cursor_position - 1
               r == String_remove(row.value, target_pos)
           IN IF r.panic
              THEN [row |-> row, panic |-> TRUE]
              ELSE [row |-> [value |-> r.value, cursor_position |-> target_pos],
                    panic |-> FALSE]
      [] key.code = "Left" /\ row.cursor_position > 0 ->
           [row |-> [row EXCEPT !.cursor_position = @ - 1], panic |-> FALSE]
      [] key.code = "Right" /\ row.cursor_position < Len(row.value) ->
           [row |-> [row EXCEPT !.cursor_position = @ + 1], panic |-> FALSE]
      [] OTHER -> [row |-> row, panic |-> FALSE]

\* The menu runs before a game exists: the game's variables hold nothing.
InitMenu ==
    /\ name_input = InputInfoRow_new
    /\ panicked = FALSE
    /\ user_input = None
    /\ game_width = None
    /\ game_height = None
    /\ snake = None
    /\ food = None
    /\ score = None
    /\ actions = <<>>
    /\ wrapped = FALSE
    /\ food_draws = 0
    /\ prior = None
    /\ running = TRUE
    /\ frames = 0

\* One key event given to handle_input.  Characters are typed while the
\* value stays within MaxBytes bytes.
HandleInput(key) ==
    /\ ~panicked
    /\ key.code = "Char" => Len(name_input.value) + len_utf8(key.c) <= MaxBytes
    /\ LET r == handle_input(name_input, key)
       IN /\ name_input' = r.row
          /\ panicked' = r.panic
    /\ user_input' = key.code
    /\ UNCHANGED <<game_width, game_height, snake, food, score, actions,
                   wrapped, food_draws, prior>>
    /\ UNCHANGED loopVars

NextMenu == \E key \in MenuKeys : HandleInput(key)

SpecMenu == InitMenu /\ [][NextMenu]_vars

\* ================================================================ claims
\* Vocabulary of the specification, stated without the model's operators.

\* One unit step from p along heading d, in the integers.
UnitStep(p, d) ==
    CASE d = "Up" -> [x |-> p.x, y |-> p.y - 1]
      [] d = "Down" -> [x |-> p.x, y |-> p.y + 1]
      [] d = "Left" -> [x |-> p.x - 1, y |-> p.y]
      [] d = "Right" -> [x |-> p.x + 1, y |-> p.y]

Opposite(d) ==
    IF d = "Up" THEN "Down"
    ELSE IF d = "Down" THEN "Up"
    ELSE IF d = "Left" THEN "Right"
    ELSE "Left"

Last(q) == q[Len(q)]

\* C1: every tick moves the head by exactly one unit step along the heading
\* in effect after the direction change, on growth ticks as on the others.
C1_HeadMovesOneStepPerTick ==
    [][snake'.head = UnitStep(snake.head, snake'.direction)]_vars

\* C2: growth is decided from the head's position after the move: a tick
\* whose new head is on the target grows in that same tick (score + 1, old
\* head pushed on the front of the body, back untouched); a tick whose new
\* head is elsewhere does not grow and leaves the score alone.
C2_GrowthDecidedAfterMove ==
    [][IF snake'.head = food.position
       THEN /\ Last(actions').must_grow
            /\ score' = score + 1
            /\ snake'.tail = <<snake.head>> \o snake.tail
       ELSE /\ ~Last(actions').must_grow
            /\ score' = score]_vars

\* C3: in every state reachable from a new game the score equals the length
\* of the body, and neither ever decreases from one tick to the next.
C3_ScoreIsBodyLength ==
    /\ [](score = Len(snake.tail))
    /\ [][score' >= score /\ Len(snake'.tail) >= Len(snake.tail)]_vars

\* Two targets were consumed and a further tick has been made.
C3_Witness ==
    /\ score = 2
    /\ Len(snake.tail) = 2
    /\ Len(actions) = 3

\* C4: under the run loop no tick translates a head whose coordinate is 0
\* one step further toward that border: the u16 subtraction never
\* underflows (it neither panics nor wraps).
C4_NoCoordinateUnderflow == ~panicked /\ ~wrapped

\* The border of the grid and membership in the body, as the specification
\* words them.
OnBorder(p) ==
    p.x = 0 \/ p.x = game_width - 1 \/ p.y = 0 \/ p.y = game_height - 1

HeadInBody == snake.head \in {snake.tail[i] : i \in 1 .. Len(snake.tail)}

\* C5: is_game_over is true exactly when the head is on the grid border or
\* equals some position of the body, and self_collision is true exactly when
\* some body position equals the head.
C5_TerminalIffBorderOrSelfCollision ==
    /\ is_game_over <=> (OnBorder(snake.head) \/ HeadInBody)
    /\ Snake_self_collision(snake) <=> HeadInBody

\* The head is on a body cell that is not on the border, and the game is over.
C5_Witness ==
    /\ HeadInBody
    /\ ~OnBorder(snake.head)
    /\ snake.tail[1] # snake.head
    /\ is_game_over

\* C6: a tick whose input is the key of the reverse of the current heading
\* leaves the heading as it was, whatever the body length.
C6_ReverseKeyKeepsHeading ==
    [][\A d \in Directions :
          (snake.direction = d /\ Tick(Opposite(d))) => snake'.direction = d]_vars

\* The last tick was given the reverse of the heading, with a body behind
\* the head.
C6_Witness ==
    /\ Len(actions) > 0
    /\ user_input = Opposite(snake.direction)
    /\ snake.tail # <<>>

\* The accepted direction change for a key and a heading, as the
\* specification lists it.
Accepted(input, heading) ==
    IF input \notin Directions THEN None
    ELSE IF input = heading THEN None
    ELSE IF input = Opposite(heading) THEN None
    ELSE input

\* C7: get_action yields None for no key, for a non-arrow key, for the
\* current heading and for its reverse, and Some(direction) for the two
\* perpendicular arrows.
C7_AcceptedDirectionChange ==
    \A input \in UserInputs :
        get_action(input).change_direction = Accepted(input, snake.direction)

\* A heading other than the initial one, where a perpendicular arrow is
\* accepted and the heading and its reverse are not.
C7_Witness ==
    /\ snake.direction = "Down"
    /\ get_action("Left").change_direction = "Left"
    /\ get_action("Down").change_direction = None
    /\ get_action("Up").change_direction = None
    /\ get_action("Char").change_direction = None

\* C8: in every reachable state the target is strictly inside the border:
\* 1 <= x <= width - 2 and 1 <= y <= height - 2.
C8_TargetInsideBorder ==
    /\ 1 <= food.position.x /\ food.position.x <= game_width - 2
    /\ 1 <= food.position.y /\ food.position.y <= game_height - 2

\* A respawn on the smallest grid drew the far corner of the interior.
C8_Witness ==
    /\ game_width = 5 /\ game_height = 5
    /\ score > 0
    /\ food.position = [x |-> 3, y |-> 3]

\* C9: a tick with no consumption and a non-empty body of length L leaves
\* the body equal to the old head followed by the previous body without its
\* last element (length L, order preserved).  A tick that panics does not
\* complete and is not covered.
C9_BodyShiftsOnNonGrowthTick ==
    [][(snake.head # food.position /\ snake.tail # <<>> /\ ~panicked')
          => snake'.tail = <<snake.head>>
                              \o SubSeq(snake.tail, 1, Len(snake.tail) - 1)]_vars

\* A non-growth tick was made with a body of length 2.
C9_Witness ==
    /\ Len(actions) > 0
    /\ ~Last(actions).must_grow
    /\ score = 2
    /\ Len(snake.tail) = 2
    /\ ~panicked

\* C10: a move_direction call on a snake with an empty body advances the
\* head one step in the current heading and leaves the body empty, for any
\* number of consecutive moves and any headings.  Moves that overflow u16
\* are not covered.
C10_EmptyBodyStaysEmpty ==
    [][(UnitMoveDirection /\ snake.tail = <<>>
            /\ ~Position_move_overflows(snake.head, snake.direction))
          => /\ snake'.tail = <<>>
             /\ snake'.head = UnitStep(snake.head, snake.direction)]_vars

\* Two moves with an empty body, Down and then Left (against the initial
\* heading), from the initial cell.
C10_Witness ==
    /\ snake.tail = <<>>
    /\ snake.direction = "Left"
    /\ snake.head = [x |-> (game_width \div 2) - 1, y |-> (game_height \div 2) + 1]

\* C11: a tick in which a target is consumed while the body is empty ends
\* with a body of length exactly 1.  A tick that panics does not end.
C11_FirstGrowthGivesLengthOne ==
    [][(snake.head = food.position /\ snake.tail = <<>> /\ ~panicked')
          => Len(snake'.tail) = 1]_vars

\* The first target was consumed by a snake without a body.
C11_Witness ==
    /\ Len(actions) = 2
    /\ ~actions[1].must_grow
    /\ actions[2].must_grow
    /\ Len(snake.tail) = 1
    /\ ~panicked

\* C12: the log grows by exactly one entry per tick and is append-only:
\* the entries already in it keep their position and content.
C12_LogAppendOnly ==
    [][/\ Len(actions') = Len(actions) + 1
       /\ SubSeq(actions', 1, Len(actions)) = actions]_vars

\* Three ticks have left three entries, the first still that of tick one
\* (taken at the centre cell of the 5 x 6 grid).
C12_Witness ==
    /\ Len(actions) = 3
    /\ game_width = 5 /\ game_height = 6
    /\ actions[1].snake_head = [x |-> 2, y |-> 3]
    /\ actions[2].snake_head # actions[1].snake_head

\* The direction change a tick applied, read off the headings around it.
AppliedChange(before, after) == IF after = before THEN None ELSE after

C14_CreatedState ==
    Len(actions) = 0 =>
        /\ snake.head = [x |-> game_width \div 2, y |-> game_height \div 2]
        /\ snake.tail = <<>>
        /\ score = 0
        /\ 1 <= food.position.x /\ food.position.x <= game_width - 2
        /\ 1 <= food.position.y /\ food.position.y <= game_height - 2
        /\ ~OnBorder(snake.head)
        /\ ~is_game_over

\* A game created on the 5 x 6 grid.
C14_Witness ==
    /\ Len(actions) = 0
    /\ game_width = 5 /\ game_height = 6
    /\ snake.head = [x |-> 2, y |-> 3]

\* C15: the target is respawned exactly once per consumption and at no
\* other time after creation: a tick without growth leaves the target alone
\* and draws nothing, a tick with growth draws exactly one new target.
C15_OneRespawnPerConsumption ==
    [][IF snake.head = food.position
       THEN food_draws' = food_draws + 1
       ELSE food_draws' = food_draws /\ food' = food]_vars

\* One draw at creation, one at the only consumption, none on the tick after.
C15_Witness ==
    /\ Len(actions) = 3
    /\ score = 1
    /\ food_draws = 2
    /\ actions[2].must_grow
    /\ ~actions[3].must_grow

\* C16: Action::reverse of an action yields an action whose direction
\* change is the reverse of the original's (no change stays no change),
\* whose growth flag is the negation of the original's and whose recorded
\* head is the original's.  The actions are those the runs have logged.
C16_ReverseOfAction ==
    \A i \in 1 .. Len(actions) :
        LET a == actions[i]
            r == Action_reverse(a)
        IN /\ r.change_direction
                 = (IF a.change_direction = None
                    THEN None
                    ELSE Opposite(a.change_direction))
           /\ r.must_grow = ~a.must_grow
           /\ r.snake_head = a.snake_head

\* The log holds a growth action with a turn to the left and an action
\* without growth or turn, and their reverses are as claimed.
C16_Witness ==
    /\ Len(actions) = 3
    /\ actions[2].must_grow /\ actions[2].change_direction = "Left"
    /\ ~Action_reverse(actions[2]).must_grow
    /\ Action_reverse(actions[2]).change_direction = "Right"
    /\ ~actions[3].must_grow /\ actions[3].change_direction = None
    /\ Action_reverse(actions[3]).must_grow
    /\ Action_reverse(actions[3]).change_direction = None

\* C17: Direction::reverse maps Up to Down, Down to Up, Left to Right and
\* Right to Left; it is an involution without fixed point.
C17_ReverseIsInvolution ==
    \A d \in Directions \cup {snake.direction} :
        /\ Direction_reverse(d) = Opposite(d)
        /\ Direction_reverse(Direction_reverse(d)) = d
        /\ Direction_reverse(d) # d

\* The snake heads left, the one heading that takes two turns to reach.
C17_Witness ==
    /\ snake.direction = "Left"
    /\ Direction_reverse(snake.direction) = "Right"

\* C18: applying an action with next and then its Action::reverse with next
\* does not return to the prior state.  Exactly one of the two actions has
\* the growth flag set, so after every such pair the head, body, heading
\* and score are not all what they were, and the score of a pair that did
\* not panic is one more than before.
C18_ReversePairDoesNotRestore ==
    SteppedBack =>
        /\ <<snake.head, snake.tail, snake.direction, score>>
              # <<prior.snake.head, prior.snake.tail, prior.snake.direction,
                   prior.score>>
        /\ ~panicked => score = prior.score + 1

\* A pair after which head, body and score all differ from the prior state.
C18_Witness ==
    /\ SteppedBack
    /\ ~panicked
    /\ snake.head # prior.snake.head
    /\ snake.tail # prior.snake.tail
    /\ score # prior.score

\* The cells the organism occupies when GameState::next calls Food::new:
\* move_and_grow has moved the head one step and pushed the old head.
CellsAtRespawn ==
    {UnitStep(snake.head, snake'.direction), snake.head}
        \cup {snake.tail[i] : i \in 1 .. Len(snake.tail)}

\* C19: a respawned target never coincides with a cell the organism
\* occupies at the moment of the respawn.
C19_RespawnAvoidsOrganism ==
    [][food_draws' # food_draws => food'.position \notin CellsAtRespawn]_vars

\* C20: in the run loop of main.rs a key naming the reverse of the current
\* heading is rejected: the move of that iteration is made with the heading
\* the snake had before the key press.
C20_MainRejectsReverseKey ==
    [][\A d \in Directions :
          (snake.direction = d /\ user_input' = Opposite(d))
              => /\ snake'.direction = d
                 /\ snake'.head = UnitStep(snake.head, d)]_vars

\* The head is strictly inside the border.
HeadInside ==
    /\ 1 <= snake.head.x /\ snake.head.x <= game_width - 2
    /\ 1 <= snake.head.y /\ snake.head.y <= game_height - 2

\* C21: in every state reached by ticks made while is_game_over is false,
\* if is_game_over is false the head is strictly inside the border: the
\* head is never outside the grid without the game being over.
C21_HeadInsideWhileNotOver ==
    (~panicked /\ ~is_game_over) => HeadInside

\* C22: when no direction key is ever pressed, the run reaches a terminal
\* state, and does so after at most game_width ticks, whatever the target
\* placement.
C22_IdleRunEndsWithinWidthTicks ==
    <>(is_game_over /\ Len(actions) <= game_width)

\* Two cells are orthogonally adjacent: exactly one cell apart.
Adjacent(p, q) ==
    LET dx == IF p.x >= q.x THEN p.x - q.x ELSE q.x - p.x
        dy == IF p.y >= q.y THEN p.y - q.y ELSE q.y - p.y
    IN dx + dy = 1

Contiguous ==
    /\ Len(snake.tail) > 0 => Adjacent(snake.head, snake.tail[1])
    /\ \A i \in 1 .. Len(snake.tail) - 1 :
          Adjacent(snake.tail[i], snake.tail[i + 1])

\* C23: in every state reached by ticks the organism is contiguous: the
\* front body segment is one cell from the head and consecutive body
\* segments are one cell from each other.
C23_OrganismContiguous == ~panicked => Contiguous

\* C24: after any sequence of key events from an empty input, with
\* characters of one or of several bytes, cursor_position is between 0 and
\* the length of value and is a position at which a character can be
\* inserted or removed, and handle_input has not failed.
C24_CursorAlwaysUsable ==
    /\ ~panicked
    /\ 0 <= name_input.cursor_position
    /\ name_input.cursor_position <= Len(name_input.value)
    /\ is_char_boundary(name_input.value, name_input.cursor_position)

====
